---- MODULE Spec2Model ----
(***************************************************************************)
(* csv-embeddings-projector: the command-line scripts                      *)
(*   scripts/cluster_embeddings.py  (cluster, main)                        *)
(*   scripts/compress_metadata.py   (compress_column, main)                *)
(*   scripts/umap_reduce.py         (load_vectors, reduce, save_vectors,   *)
(*                                   main)                                 *)
(*   scripts/embed_csv.py           (combine_text_columns,                 *)
(*                                   generate_embeddings, main)            *)
(* as state machines.  One behaviour is one run of one script: Init is the *)
(* file system and the parsed arguments, the actions are the steps of      *)
(* main() up to the exit of the process.                                   *)
(*                                                                         *)
(* A vector row is abstracted to one integer coordinate (the rows lie on a *)
(* line of the D-dimensional space); the number of columns of the file is  *)
(* kept apart in fileDims, because np.loadtxt's result shape depends on it.*)
(***************************************************************************)
EXTENDS Integers, Sequences, FiniteSets, TLC

VARIABLES
    script,          \* which script this run executes
    pc,              \* position of main(): "start", "cluster", "compress", "done"
    exitCode,        \* process exit status; NoExit while running
    report,          \* what the run printed about a failure ("" = nothing)
    vectorsExists,   \* vectors_path.exists()
    umapDims,        \* args.umap_dims
    umapExists,      \* umap_path.exists()
    metadataExists,  \* metadata_path.exists()
    fileRows,        \* rows of the file at cluster_vectors_path (one coordinate each)
    fileDims,        \* number of columns of that file
    metadataFile,    \* the metadata table as stored in the input file
    df,              \* the DataFrame main() holds
    levels,          \* args.levels
    i,               \* loop position (levels in cluster(), columns in compress main())
    results,         \* cluster(): results dict, level -> labels
    runs,            \* levels fitted and reported by tqdm.write, in order
    fits,            \* number of BisectingKMeans models constructed
    rng,             \* state of the RandomState of the latest model
    columnsArg,      \* args.columns after split/strip; NoColumns when falsy
    columns,         \* compress main(): the columns list being processed
    top_n,           \* args.top_n
    outFile,         \* content of output_path; NoFile when it does not exist
    outputBefore,    \* content of output_path when the run starts
    dims,            \* umap_reduce: args.dims
    n_neighbors,     \* umap_reduce: args.n_neighbors
    min_dist,        \* umap_reduce: args.min_dist, in tenths
    calls,           \* umap_reduce: the functions main() has called, in order
    inputExists,     \* embed_csv: input_path.exists()
    csvFile,         \* embed_csv: the table stored in the input CSV
    textColumnsArg,  \* embed_csv: args.text_columns after split/strip
    batch_size,      \* embed_csv: args.batch_size
    texts,           \* embed_csv: the texts given to generate_embeddings
    embeddings,      \* generate_embeddings: the list of batch results
    progress,        \* generate_embeddings: the done counts printed, in order
    vectorsOut       \* embed_csv: content of vectors_path; NoFile when absent

vars == <<script, pc, exitCode, report, vectorsExists, umapDims, umapExists,
          metadataExists, fileRows, fileDims, metadataFile, df, levels, i,
          results, runs, fits, rng, columnsArg, columns, top_n, outFile,
          outputBefore, dims, n_neighbors, min_dist, calls, inputExists, csvFile,
          textColumnsArg, batch_size, texts, embeddings, progress, vectorsOut>>

\* ---------------------------------------------------------------- bounds
MaxRows == 3        \* rows of the vectors file and of the metadata table
MaxCoord == 2       \* coordinates are 0..MaxCoord
MaxTopN == 2        \* --top-n is 0..MaxTopN
MaxDims == 2        \* columns of a vectors file, and --umap-dims, up to MaxDims
MaxBatch == 2       \* --batch-size is 0..MaxBatch

\* BisectingKMeans(n_clusters=n, random_state=42)
random_state == 42

NoExit == -1
NoFile == [columns |-> <<>>, data |-> <<>>, exists |-> FALSE]
NoColumns == <<>>
EmptyFrame == [columns |-> <<>>, data |-> <<>>]

\* ---------------------------------------------------------------- helpers
Range(s) == {s[k] : k \in 1..Len(s)}

\* str(k) of a non-negative int
Digit(d) == CASE d = 0 -> "0" [] d = 1 -> "1" [] d = 2 -> "2" [] d = 3 -> "3"
              [] d = 4 -> "4" [] d = 5 -> "5" [] d = 6 -> "6" [] d = 7 -> "7"
              [] d = 8 -> "8" [] d = 9 -> "9"

RECURSIVE Str(_)
Str(k) == IF k < 10 THEN Digit(k) ELSE Str(k \div 10) \o Digit(k % 10)

\* f"{n:02d}": decimal, left-padded with zeros to a width of at least two
Format02d(n) == IF n < 10 THEN "0" \o Str(n) ELSE Str(n)

\* f"cluster_{n:02d}"
ClusterColumn(n) == "cluster_" \o Format02d(n)

\* sorted(levels)
SortedLevels(ls) == SortSeq(ls, LAMBDA a, b : a < b)

\* ---------------------------------------------------------------- DataFrame
\* len(df)
FrameLen(f) == IF f.columns = <<>> THEN 0 ELSE Len(f.data[1])

ColumnIndex(f, col) == CHOOSE k \in 1..Len(f.columns) : f.columns[k] = col

\* df[col]
GetColumn(f, col) == f.data[ColumnIndex(f, col)]

\* df[col] = vals : an existing column of that name is replaced in place,
\* otherwise the column is appended on the right
SetItem(f, col, vals) ==
    IF col \in Range(f.columns)
    THEN [f EXCEPT !.data[ColumnIndex(f, col)] = vals]
    ELSE [columns |-> Append(f.columns, col), data |-> Append(f.data, vals)]

\* df.to_csv(output_path, sep='\t', index=False)
ToCsv(f) == [columns |-> f.columns, data |-> f.data, exists |-> TRUE]

\* ---------------------------------------------------------------- BisectingKMeans
\* X is the vector matrix (one coordinate per row); a leaf of the bisecting
\* tree is a set of row indices.
RECURSIVE CoordSum(_, _)
CoordSum(X, S) ==
    IF S = {} THEN 0
    ELSE LET j == CHOOSE j \in S : TRUE IN X[j] + CoordSum(X, S \ {j})

RECURSIVE SquareSum(_, _)
SquareSum(X, S) ==
    IF S = {} THEN 0
    ELSE LET j == CHOOSE j \in S : TRUE IN X[j] * X[j] + SquareSum(X, S \ {j})

\* |S| times the inertia (sum of squared distances to the mean) of leaf S
InertiaTimesSize(X, S) ==
    Cardinality(S) * SquareSum(X, S) - CoordSum(X, S) * CoordSum(X, S)

\* inertia(A) > inertia(B)
InertiaGreater(X, A, B) ==
    /\ A # {}
    /\ IF B = {} THEN InertiaTimesSize(X, A) > 0
       ELSE InertiaTimesSize(X, A) * Cardinality(B)
                > InertiaTimesSize(X, B) * Cardinality(A)

\* bisecting_strategy="biggest_inertia": the first leaf of maximal inertia
ClusterToBisect(X, leaves) ==
    CHOOSE k \in 1..Len(leaves) :
        /\ \A m \in 1..Len(leaves) : ~InertiaGreater(X, leaves[m], leaves[k])
        /\ \A m \in 1..(k - 1) : InertiaGreater(X, leaves[k], leaves[m])

Below(X, S, t) == {j \in S : X[j] <= t}

\* A 2-means partition of S at threshold t that Lloyd's iteration leaves
\* unchanged: every row is at least as close to its own centre as to the other.
LloydStable(X, S, t) ==
    LET L == Below(X, S, t)
        R == S \ L
        nL == Cardinality(L)
        nR == Cardinality(R)
        mid == CoordSum(X, L) * nR + CoordSum(X, R) * nL   \* 2*nL*nR*(midpoint)
    IN  /\ L # {} /\ R # {}
        /\ \A j \in L : 2 * nL * nR * X[j] <= mid
        /\ \A j \in R : mid <= 2 * nL * nR * X[j]

\* One draw of the model's RandomState
NextRandom(r) == (r * 3 + 1) % 16

\* _bisect: 2-means (init="random", n_init=1) on leaf S.  The fixed point that
\* Lloyd's iteration reaches is decided by the random initial centres, i.e. by
\* the draw r.  Rows with equal vectors always share a side; a leaf whose rows
\* are all equal is not divided (its second child is empty).
Bisect(X, S, r) ==
    LET cuts == {X[j] : j \in S}
        stable == {t \in cuts : LloydStable(X, S, t)}
        order == SortSeq(CHOOSE q \in [1..Cardinality(stable) -> stable] :
                             Range(q) = stable,
                         LAMBDA a, b : a < b)
        t == order[(r % Len(order)) + 1]
    IN  IF stable = {} THEN <<S, {}>>
        ELSE <<Below(X, S, t), S \ Below(X, S, t)>>

\* the loop "for _ in range(n_clusters - 1)" of BisectingKMeans.fit
RECURSIVE Grow(_, _, _, _)
Grow(X, leaves, r, todo) ==
    IF todo <= 0 THEN [leaves |-> leaves, rng |-> r]
    ELSE LET k == ClusterToBisect(X, leaves)
             two == Bisect(X, leaves[k], r)
         IN  Grow(X,
                  SubSeq(leaves, 1, k - 1) \o two \o SubSeq(leaves, k + 1, Len(leaves)),
                  NextRandom(r), todo - 1)

\* mutant of FitRaises: a model that clamps instead of raising
FitNeverRaises(X, n) == FALSE

\* fit raises: InvalidParameterError for n_clusters < 1, ValueError
\* "n_samples=.. should be >= n_clusters=.." for more clusters than rows
FitRaises(X, n) == n < 1 \/ Len(X) < n

\* model.fit_predict(vectors): labels_ numbers the leaves 0, 1, ... left to right
FitPredict(X, n, r) ==
    LET tree == Grow(X, <<1..Len(X)>>, r, n - 1)
    IN  [labels |-> [j \in 1..Len(X) |->
                        (CHOOSE k \in 1..Len(tree.leaves) : j \in tree.leaves[k]) - 1],
         rng |-> tree.rng]

\* mutant of NewRandomState: one RandomState shared by the models of a run
SharedRandomState(previous) == previous

\* BisectingKMeans(n_clusters=n, random_state=42): every model gets its own
\* RandomState seeded with 42, whatever state an earlier model was left in
NewRandomState(previous) == random_state

\* mutant of OneBased: the library's 0-based labels returned as they are
ZeroBased(labels) == labels

\* model.fit_predict(vectors) + 1
OneBased(labels) == [j \in DOMAIN labels |-> labels[j] + 1]

\* lab.astype(str)
AsStr(labels) == [j \in DOMAIN labels |-> Str(labels[j])]

\* number of distinct vectors
Distinct(X) == Cardinality(Range(X))

\* ---------------------------------------------------------------- inputs
\* the variables of umap_reduce in a run of another script
NoUmapRun ==
    /\ outputBefore = NoFile
    /\ dims = 0 /\ n_neighbors = 0 /\ min_dist = 0 /\ calls = <<>>

\* the variables of embed_csv in a run of another script
NoEmbedRun ==
    /\ inputExists = FALSE /\ csvFile = EmptyFrame
    /\ textColumnsArg = NoColumns /\ batch_size = 0
    /\ texts = <<>> /\ embeddings = <<>> /\ progress = <<>>
    /\ vectorsOut = NoFile

RowSeqs(S) == UNION {[1..k -> S] : k \in 0..MaxRows}

\* --levels: one or two requested cluster counts, some beyond the row count
LevelChoices == 1..(MaxRows + 1)
LevelLists == {<<a>> : a \in LevelChoices}
                  \cup {<<a, b>> : a \in LevelChoices, b \in LevelChoices}

\* headers of the metadata table given to cluster_embeddings
ClusterHeaders == {<<"title">>, <<"title", "cluster_02">>, <<"cluster_03", "title">>}

\* the cell of column col in row r of that table
MetaCell(col, r) == col \o "#" \o Str(r)

MetaTable(header, m) ==
    [columns |-> header,
     data |-> [k \in 1..Len(header) |-> [r \in 1..m |-> MetaCell(header[k], r)]]]

\* np.loadtxt(path, delimiter='\t'): axes of length one are squeezed, so a
\* file of one row or of one column (or an empty file) gives no 2-D array
LoadtxtNdim(rows, cols) ==
    IF Len(rows) >= 2 /\ cols >= 2 THEN 2
    ELSE IF Len(rows) = 1 /\ cols = 1 THEN 0 ELSE 1

\* pd.read_csv(path, sep='\t', dtype=str).fillna('')
LoadMetadata(file) == [columns |-> file.columns, data |-> file.data]

PathsExist == vectorsExists /\ (umapDims > 0 => umapExists) /\ metadataExists

ClusterInit ==
    /\ script = "cluster_embeddings"
    /\ pc = "start" /\ exitCode = NoExit /\ report = ""
    /\ vectorsExists \in BOOLEAN
    /\ umapDims \in 0..MaxDims
    /\ umapExists \in (IF umapDims > 0 THEN BOOLEAN ELSE {FALSE})
    /\ metadataExists \in BOOLEAN
    /\ fileRows \in (IF PathsExist THEN RowSeqs(0..MaxCoord) ELSE {<<>>})
    /\ fileDims \in (IF umapDims > 0 THEN {umapDims} ELSE 1..MaxDims)
    /\ metadataFile \in (IF metadataExists
                         THEN {MetaTable(h, m) : h \in ClusterHeaders, m \in 0..MaxRows}
                         ELSE {EmptyFrame})
    /\ levels \in LevelLists
    /\ df = EmptyFrame /\ i = 0 /\ results = <<>> /\ runs = <<>>
    /\ fits = 0 /\ rng = 0
    /\ columnsArg = NoColumns /\ columns = <<>> /\ top_n = 0
    /\ outFile = NoFile
    /\ NoUmapRun /\ NoEmbedRun

\* ---------------------------------------------------------------- cluster_embeddings.main
Inputs == <<script, vectorsExists, umapDims, umapExists, metadataExists, fileRows,
            fileDims, metadataFile, levels, columnsArg, top_n, outputBefore, dims,
            n_neighbors, min_dist, inputExists, csvFile, textColumnsArg, batch_size>>

\* what only umap_reduce and embed_csv write
OtherRuns == <<calls, texts, embeddings, progress, vectorsOut>>

\* sys.exit(code) after printing what, or an uncaught exception (status 1)
Exit(code, what) ==
    /\ pc' = "done" /\ exitCode' = code /\ report' = what

ClusterStart == script = "cluster_embeddings" /\ pc = "start"

\* lines 90-94
VectorsNotFound ==
    /\ ClusterStart /\ ~vectorsExists
    /\ Exit(1, "Vectors file not found")
    /\ UNCHANGED <<Inputs, OtherRuns, df, i, results, runs, fits, rng, columns, outFile>>

\* lines 97-102
UmapNotFound ==
    /\ ClusterStart /\ vectorsExists
    /\ umapDims > 0 /\ ~umapExists
    /\ Exit(1, "UMAP vectors not found")
    /\ UNCHANGED <<Inputs, OtherRuns, df, i, results, runs, fits, rng, columns, outFile>>

\* lines 107-111
ClusterMetadataNotFound ==
    /\ ClusterStart /\ vectorsExists /\ (umapDims > 0 => umapExists)
    /\ ~metadataExists
    /\ Exit(1, "Metadata file not found")
    /\ UNCHANGED <<Inputs, OtherRuns, df, i, results, runs, fits, rng, columns, outFile>>

\* lines 125-126: vectors.shape[1] of an array that is not 2-D raises IndexError
ShapeIndexError ==
    /\ ClusterStart /\ PathsExist
    /\ LoadtxtNdim(fileRows, fileDims) < 2
    /\ Exit(1, "Traceback: IndexError")
    /\ UNCHANGED <<Inputs, OtherRuns, df, i, results, runs, fits, rng, columns, outFile>>

\* lines 128-131
RowCountMismatch ==
    /\ ClusterStart /\ PathsExist
    /\ LoadtxtNdim(fileRows, fileDims) = 2
    /\ FrameLen(LoadMetadata(metadataFile)) # Len(fileRows)
    /\ df' = LoadMetadata(metadataFile)
    /\ Exit(1, "Row count mismatch")
    /\ UNCHANGED <<Inputs, OtherRuns, i, results, runs, fits, rng, columns, outFile>>

\* lines 125-134: both inputs loaded, row counts equal, cluster() is entered
EnterCluster ==
    /\ ClusterStart /\ PathsExist
    /\ LoadtxtNdim(fileRows, fileDims) = 2
    /\ FrameLen(LoadMetadata(metadataFile)) = Len(fileRows)
    /\ df' = LoadMetadata(metadataFile)
    /\ pc' = "cluster" /\ i' = 1 /\ results' = <<>>
    /\ UNCHANGED <<Inputs, OtherRuns, exitCode, report, runs, fits, rng, columns, outFile>>

\* cluster(), lines 44-46: the model of the next level raises in fit_predict;
\* nothing catches it, so main() ends with a traceback
FitError ==
    /\ script = "cluster_embeddings" /\ pc = "cluster"
    /\ i <= Len(levels)
    /\ FitRaises(fileRows, SortedLevels(levels)[i])
    /\ fits' = fits + 1
    /\ rng' = NewRandomState(rng)
    /\ Exit(1, "Traceback: ValueError")
    /\ UNCHANGED <<Inputs, OtherRuns, df, i, results, runs, columns, outFile>>

\* cluster(), lines 44-50: one iteration of the loop over sorted(levels)
ClusterLevel ==
    /\ script = "cluster_embeddings" /\ pc = "cluster"
    /\ i <= Len(levels)
    /\ LET n == SortedLevels(levels)[i]
           fit == FitPredict(fileRows, n, NewRandomState(rng))
       IN  /\ ~FitRaises(fileRows, n)
           /\ fits' = fits + 1
           /\ rng' = fit.rng
           /\ results' = (n :> OneBased(fit.labels)) @@ results
           /\ runs' = Append(runs, n)
    /\ i' = i + 1
    /\ UNCHANGED <<Inputs, OtherRuns, pc, exitCode, report, df, columns, outFile>>

\* sorted(labels.items()): the levels of the dict in ascending order
RECURSIVE SortedKeys(_)
SortedKeys(S) ==
    IF S = {} THEN <<>>
    ELSE LET least == CHOOSE a \in S : \A b \in S : a <= b
         IN  <<least>> \o SortedKeys(S \ {least})

\* lines 138-140
RECURSIVE AddLevelColumns(_, _, _)
AddLevelColumns(f, keys, labels) ==
    IF keys = <<>> THEN f
    ELSE AddLevelColumns(SetItem(f, ClusterColumn(Head(keys)), AsStr(labels[Head(keys)])),
                         Tail(keys), labels)

\* lines 134-145: cluster() returns; the level columns are added and the table written
WriteClusters ==
    /\ script = "cluster_embeddings" /\ pc = "cluster"
    /\ i > Len(levels)
    /\ df' = AddLevelColumns(df, SortedKeys(DOMAIN results), results)
    /\ outFile' = ToCsv(df')
    /\ Exit(0, "")
    /\ UNCHANGED <<Inputs, OtherRuns, i, results, runs, fits, rng, columns>>

ClusterNext ==
    \/ VectorsNotFound
    \/ UmapNotFound
    \/ ClusterMetadataNotFound
    \/ ShapeIndexError
    \/ RowCountMismatch
    \/ EnterCluster
    \/ FitError
    \/ ClusterLevel
    \/ WriteClusters

ClusterSpec == ClusterInit /\ [][ClusterNext]_vars

\* ---------------------------------------------------------------- compress_metadata
\* number of rows of the series holding value v
Count(series, v) == Cardinality({j \in 1..Len(series) : series[j] = v})

\* index of the first row holding value v
FirstRow(series, v) == CHOOSE j \in 1..Len(series) :
                           series[j] = v /\ \A m \in 1..(j - 1) : series[m] # v

\* position of v in series.value_counts(): by descending count; values of
\* equal count keep the order of their first appearance
CountRank(series, v) ==
    1 + Cardinality({u \in Range(series) :
                        \/ Count(series, u) > Count(series, v)
                        \/ /\ Count(series, u) = Count(series, v)
                           /\ FirstRow(series, u) < FirstRow(series, v)})

\* mutant of TopValues: head(top_n + 1)
TopValuesOneMore(series, n) == {v \in Range(series) : CountRank(series, v) <= n + 1}

\* series.value_counts().head(top_n).index, for top_n >= 0
TopValues(series, n) == {v \in Range(series) : CountRank(series, v) <= n}

\* series.where(series.isin(top_values), other='Other')
compress_column(series, n) ==
    [j \in 1..Len(series) |->
        IF series[j] \in TopValues(series, n) THEN series[j] ELSE "Other"]

\* f"{col}_top{args.top_n}"
TopColumn(col, n) == col \o "_top" \o Str(n)

\* headers and cells of the metadata table given to compress_metadata
CompressHeaders == {<<"genre">>, <<"genre", "year">>, <<"genre", "genre_top1">>}
CellValues == {"A", "B", "Other"}

CompressTables ==
    UNION {{[columns |-> h, data |-> d] :
                d \in UNION {[1..Len(h) -> [1..m -> CellValues]] : m \in 0..MaxRows}} :
           h \in CompressHeaders}

\* the documented example: values [A,A,A,B,B,C,D,E]
ExampleColumn == <<"A", "A", "A", "B", "B", "C", "D", "E">>
ExampleTable == [columns |-> <<"publisher">>, data |-> <<ExampleColumn>>]

\* --columns after split(',') and strip(): absent, one name, every name, or a
\* list naming a column the table does not have
ColumnLists(h) ==
    {NoColumns, h, <<h[1], h[1]>>, <<h[1], "missing">>}
        \cup {<<c>> : c \in Range(h) \cup {"missing"}}

CompressInit ==
    /\ script = "compress_metadata"
    /\ pc = "start" /\ exitCode = NoExit /\ report = ""
    /\ metadataExists \in BOOLEAN
    /\ metadataFile \in
         (IF metadataExists
          THEN CompressTables \cup {ExampleTable}
          ELSE {EmptyFrame})
    /\ top_n \in 0..MaxTopN
    /\ columnsArg \in (IF metadataExists THEN ColumnLists(metadataFile.columns)
                       ELSE {NoColumns})
    /\ df = EmptyFrame /\ i = 0 /\ columns = <<>>
    /\ vectorsExists = FALSE /\ umapDims = 0 /\ umapExists = FALSE
    /\ fileRows = <<>> /\ fileDims = 1 /\ levels = <<>>
    /\ results = <<>> /\ runs = <<>> /\ fits = 0 /\ rng = 0
    /\ outFile = NoFile
    /\ NoUmapRun /\ NoEmbedRun

CompressStart == script = "compress_metadata" /\ pc = "start"

\* lines 60-64
CompressMetadataNotFound ==
    /\ CompressStart /\ ~metadataExists
    /\ Exit(1, "Metadata file not found")
    /\ UNCHANGED <<Inputs, OtherRuns, df, i, results, runs, fits, rng, columns, outFile>>

\* line 80: the named columns the table does not have
Missing(cols, f) == SelectSeq(cols, LAMBDA c : c \notin Range(f.columns))

\* lines 76-84
ColumnsNotFound ==
    /\ CompressStart /\ metadataExists
    /\ columnsArg # NoColumns
    /\ Missing(columnsArg, LoadMetadata(metadataFile)) # <<>>
    /\ df' = LoadMetadata(metadataFile)
    /\ Exit(1, "Column(s) not found")
    /\ UNCHANGED <<Inputs, OtherRuns, i, results, runs, fits, rng, columns, outFile>>

\* lines 76-87: the table is loaded and the list of columns settled
EnterCompress ==
    /\ CompressStart /\ metadataExists
    /\ columnsArg # NoColumns => Missing(columnsArg, LoadMetadata(metadataFile)) = <<>>
    /\ df' = LoadMetadata(metadataFile)
    /\ columns' = IF columnsArg # NoColumns THEN columnsArg
                  ELSE LoadMetadata(metadataFile).columns
    /\ pc' = "compress" /\ i' = 1
    /\ UNCHANGED <<Inputs, OtherRuns, exitCode, report, results, runs, fits, rng, outFile>>

\* lines 89-96: one iteration of the loop over columns
CompressStep ==
    /\ script = "compress_metadata" /\ pc = "compress"
    /\ i <= Len(columns)
    /\ df' = SetItem(df, TopColumn(columns[i], top_n),
                     compress_column(GetColumn(df, columns[i]), top_n))
    /\ i' = i + 1
    /\ UNCHANGED <<Inputs, OtherRuns, pc, exitCode, report, results, runs, fits, rng, columns,
                   outFile>>

\* lines 98-101
WriteFacets ==
    /\ script = "compress_metadata" /\ pc = "compress"
    /\ i > Len(columns)
    /\ outFile' = ToCsv(df)
    /\ Exit(0, "")
    /\ UNCHANGED <<Inputs, OtherRuns, df, i, results, runs, fits, rng, columns>>

CompressNext ==
    \/ CompressMetadataNotFound
    \/ ColumnsNotFound
    \/ EnterCompress
    \/ CompressStep
    \/ WriteFacets

CompressSpec == CompressInit /\ [][CompressNext]_vars

\* ---------------------------------------------------------------- umap_reduce
\* --n-neighbors (default 15) and --min-dist in tenths (default 0.1), with
\* values UMAP rejects (n_neighbors < 2, min_dist < 0)
NeighborChoices == {1, 15}
MinDistChoices == {-1, 1}

\* a file already at output_path
ExistingVectors == [columns |-> <<>>, data |-> <<<<"0.500000">>>>, exists |-> TRUE]

\* f'{v:.6f}' of a non-negative whole number
Format6f(v) == Str(v) \o ".000000"

\* reducer.fit_transform(vectors): one row of dims components per input row
Reduce(rows, d) == [j \in 1..Len(rows) |-> [k \in 1..d |-> rows[j]]]

\* umap.UMAP(...).fit_transform raises ValueError for n_components < 1,
\* n_neighbors < 2 or a negative min_dist
ReduceRaises(d, neighbors, dist) == d < 1 \/ neighbors < 2 \/ dist < 0

\* save_vectors: one line per row, the values as '{v:.6f}'
SaveVectors(matrix) ==
    [columns |-> <<>>,
     data |-> [j \in 1..Len(matrix) |->
                  [k \in 1..Len(matrix[j]) |-> Format6f(matrix[j][k])]],
     exists |-> TRUE]

\* mutant of AlreadyExists: the existence check left out
NeverExists(file) == FALSE

\* line 103: output_path.exists()
AlreadyExists(file) == file.exists

UmapInit ==
    /\ script = "umap_reduce"
    /\ pc = "start" /\ exitCode = NoExit /\ report = ""
    /\ vectorsExists \in BOOLEAN
    /\ fileRows \in (IF vectorsExists THEN RowSeqs(0..MaxCoord) ELSE {<<>>})
    /\ fileDims \in 1..MaxDims
    /\ dims \in 0..MaxDims
    /\ n_neighbors \in NeighborChoices
    /\ min_dist \in MinDistChoices
    /\ outputBefore \in {NoFile, ExistingVectors}
    /\ outFile = outputBefore
    /\ calls = <<>>
    /\ umapDims = 0 /\ umapExists = FALSE /\ metadataExists = FALSE
    /\ metadataFile = EmptyFrame /\ df = EmptyFrame /\ levels = <<>> /\ i = 0
    /\ results = <<>> /\ runs = <<>> /\ fits = 0 /\ rng = 0
    /\ columnsArg = NoColumns /\ columns = <<>> /\ top_n = 0
    /\ NoEmbedRun

UmapStart == script = "umap_reduce" /\ pc = "start"

UmapIdle == <<df, i, results, runs, fits, rng, columns, texts, embeddings, progress,
              vectorsOut>>

\* lines 94-98
UmapVectorsNotFound ==
    /\ UmapStart /\ ~vectorsExists
    /\ Exit(1, "Vectors file not found")
    /\ UNCHANGED <<Inputs, UmapIdle, calls, outFile>>

\* lines 100-106
UmapAlreadyExists ==
    /\ UmapStart /\ vectorsExists
    /\ AlreadyExists(outFile)
    /\ Exit(0, "Already exists, skipping")
    /\ UNCHANGED <<Inputs, UmapIdle, calls, outFile>>

\* lines 112, 26-27: vectors.shape[1] of an array that is not 2-D raises IndexError
UmapShapeIndexError ==
    /\ UmapStart /\ vectorsExists /\ ~AlreadyExists(outFile)
    /\ LoadtxtNdim(fileRows, fileDims) < 2
    /\ calls' = Append(calls, "load_vectors")
    /\ Exit(1, "Traceback: IndexError")
    /\ UNCHANGED <<Inputs, UmapIdle, outFile>>

\* lines 112-116
DimsTooLarge ==
    /\ UmapStart /\ vectorsExists /\ ~AlreadyExists(outFile)
    /\ LoadtxtNdim(fileRows, fileDims) = 2
    /\ dims >= fileDims
    /\ calls' = Append(calls, "load_vectors")
    /\ Exit(1, "--dims must be less than input dims")
    /\ UNCHANGED <<Inputs, UmapIdle, outFile>>

\* lines 112-118: reduce() raises, nothing catches it
ReduceError ==
    /\ UmapStart /\ vectorsExists /\ ~AlreadyExists(outFile)
    /\ LoadtxtNdim(fileRows, fileDims) = 2
    /\ dims < fileDims
    /\ ReduceRaises(dims, n_neighbors, min_dist)
    /\ calls' = calls \o <<"load_vectors", "reduce">>
    /\ Exit(1, "Traceback: ValueError")
    /\ UNCHANGED <<Inputs, UmapIdle, outFile>>

\* lines 112-129
ReduceAndSave ==
    /\ UmapStart /\ vectorsExists /\ ~AlreadyExists(outFile)
    /\ LoadtxtNdim(fileRows, fileDims) = 2
    /\ dims < fileDims
    /\ ~ReduceRaises(dims, n_neighbors, min_dist)
    /\ calls' = calls \o <<"load_vectors", "reduce", "save_vectors">>
    /\ outFile' = SaveVectors(Reduce(fileRows, dims))
    /\ Exit(0, "")
    /\ UNCHANGED <<Inputs, UmapIdle>>

UmapNext ==
    \/ UmapVectorsNotFound
    \/ UmapAlreadyExists
    \/ UmapShapeIndexError
    \/ DimsTooLarge
    \/ ReduceError
    \/ ReduceAndSave

UmapSpec == UmapInit /\ [][UmapNext]_vars

\* ---------------------------------------------------------------- embed_csv
\* headers and cells of the input CSV; "" is a missing value (NaN)
CsvHeaders == {<<"title">>, <<"title", "description">>}
CsvCells == {"", "a", " b"}

CsvTables ==
    UNION {{[columns |-> h, data |-> d] :
                d \in UNION {[1..Len(h) -> [1..m -> CsvCells]] : m \in 0..MaxRows}} :
           h \in CsvHeaders}

\* --text-columns after split(',') and strip()
TextColumnLists(h) == {NoColumns, h, <<h[1]>>, <<"missing">>}

\* str(val).strip() on the cells of the input
Strip(cell) == CASE cell = " b" -> "b" [] OTHER -> cell

\* ' '.join(parts)
RECURSIVE Join(_)
Join(parts) ==
    IF parts = <<>> THEN ""
    ELSE IF Len(parts) = 1 THEN parts[1]
    ELSE parts[1] \o " " \o Join(Tail(parts))

\* combine_text_columns, lines 30-40: per row, the stripped non-missing,
\* non-blank values of the columns, joined by a space
combine_text_columns(f, cols) ==
    [r \in 1..FrameLen(f) |->
        Join(SelectSeq([k \in 1..Len(cols) |-> Strip(GetColumn(f, cols[k])[r])],
                       LAMBDA part : part # ""))]

\* the row model.encode computes for one text
Encode(text) == <<"E(" \o text \o ")">>

\* mutant of Batch: a slice that runs one text into the next batch
BatchOneMore(ts, start, size) ==
    SubSeq(ts, start + 1, IF start + size + 1 < Len(ts) THEN start + size + 1 ELSE Len(ts))

\* texts[i:i+batch_size]
Batch(ts, start, size) ==
    SubSeq(ts, start + 1, IF start + size < Len(ts) THEN start + size ELSE Len(ts))

\* model.encode(batch, show_progress_bar=False): one row per text of the batch
EncodeBatchRows(batch) == [k \in 1..Len(batch) |-> Encode(batch[k])]

\* np.vstack(embeddings)
RECURSIVE Vstack(_)
Vstack(arrays) == IF arrays = <<>> THEN <<>> ELSE Head(arrays) \o Vstack(Tail(arrays))

\* save_vectors, lines 71-77: one line per row
SaveEmbeddings(matrix) == [columns |-> <<>>, data |-> matrix, exists |-> TRUE]

\* load_csv
LoadCsv(file) == [columns |-> file.columns, data |-> file.data]

EmbedInit ==
    /\ script = "embed_csv"
    /\ pc = "start" /\ exitCode = NoExit /\ report = ""
    /\ inputExists \in BOOLEAN
    /\ csvFile \in (IF inputExists THEN CsvTables ELSE {EmptyFrame})
    /\ textColumnsArg \in (IF inputExists THEN TextColumnLists(csvFile.columns)
                           ELSE {NoColumns})
    /\ batch_size \in 0..MaxBatch
    /\ df = EmptyFrame /\ columns = <<>> /\ texts = <<>> /\ i = 0
    /\ embeddings = <<>> /\ progress = <<>>
    /\ vectorsOut = NoFile /\ outFile = NoFile
    /\ vectorsExists = FALSE /\ umapDims = 0 /\ umapExists = FALSE
    /\ metadataExists = FALSE /\ fileRows = <<>> /\ fileDims = 1
    /\ metadataFile = EmptyFrame /\ levels = <<>>
    /\ results = <<>> /\ runs = <<>> /\ fits = 0 /\ rng = 0
    /\ columnsArg = NoColumns /\ top_n = 0
    /\ NoUmapRun

EmbedStart == script = "embed_csv" /\ pc = "start"

EmbedIdle == <<results, runs, fits, rng, calls>>

\* lines 150-153
TextColumns == IF textColumnsArg # NoColumns THEN textColumnsArg
               ELSE LoadCsv(csvFile).columns

\* lines 142-144
InputNotFound ==
    /\ EmbedStart /\ ~inputExists
    /\ Exit(1, "File not found")
    /\ UNCHANGED <<Inputs, EmbedIdle, df, i, columns, texts, embeddings, progress,
                   vectorsOut, outFile>>

\* lines 146-169
TextColumnsNotFound ==
    /\ EmbedStart /\ inputExists
    /\ Missing(TextColumns, LoadCsv(csvFile)) # <<>>
    /\ df' = LoadCsv(csvFile)
    /\ columns' = TextColumns
    /\ Exit(1, "Column(s) not found")
    /\ UNCHANGED <<Inputs, EmbedIdle, i, texts, embeddings, progress, vectorsOut,
                   outFile>>

\* lines 146-180, 57: range(0, total, 0) raises ValueError
RangeError ==
    /\ EmbedStart /\ inputExists
    /\ Missing(TextColumns, LoadCsv(csvFile)) = <<>>
    /\ batch_size = 0
    /\ df' = LoadCsv(csvFile)
    /\ columns' = TextColumns
    /\ texts' = combine_text_columns(df', columns')
    /\ Exit(1, "Traceback: ValueError")
    /\ UNCHANGED <<Inputs, EmbedIdle, i, embeddings, progress, vectorsOut, outFile>>

\* lines 146-180, 45-57: generate_embeddings is entered
EnterEmbed ==
    /\ EmbedStart /\ inputExists
    /\ Missing(TextColumns, LoadCsv(csvFile)) = <<>>
    /\ batch_size >= 1
    /\ df' = LoadCsv(csvFile)
    /\ columns' = TextColumns
    /\ texts' = combine_text_columns(df', columns')
    /\ pc' = "embed" /\ i' = 0 /\ embeddings' = <<>> /\ progress' = <<>>
    /\ UNCHANGED <<Inputs, EmbedIdle, exitCode, report, vectorsOut, outFile>>

\* lines 57-65: one iteration of "for i in range(0, total, batch_size)"
EncodeBatch ==
    /\ script = "embed_csv" /\ pc = "embed"
    /\ i < Len(texts)
    /\ embeddings' = Append(embeddings, EncodeBatchRows(Batch(texts, i, batch_size)))
    /\ progress' = Append(progress, IF i + batch_size < Len(texts)
                                    THEN i + batch_size ELSE Len(texts))
    /\ i' = i + batch_size
    /\ UNCHANGED <<Inputs, EmbedIdle, pc, exitCode, report, df, columns, texts,
                   vectorsOut, outFile>>

\* line 68: np.vstack of an empty list raises ValueError
VstackError ==
    /\ script = "embed_csv" /\ pc = "embed"
    /\ i >= Len(texts)
    /\ embeddings = <<>>
    /\ Exit(1, "Traceback: ValueError")
    /\ UNCHANGED <<Inputs, EmbedIdle, df, i, columns, texts, embeddings, progress,
                   vectorsOut, outFile>>

\* lines 68, 181-190: the matrix is returned and both files are written
SaveOutputs ==
    /\ script = "embed_csv" /\ pc = "embed"
    /\ i >= Len(texts)
    /\ embeddings # <<>>
    /\ vectorsOut' = SaveEmbeddings(Vstack(embeddings))
    /\ outFile' = ToCsv(df)
    /\ Exit(0, "")
    /\ UNCHANGED <<Inputs, EmbedIdle, df, i, columns, texts, embeddings, progress>>

EmbedNext ==
    \/ InputNotFound
    \/ TextColumnsNotFound
    \/ RangeError
    \/ EnterEmbed
    \/ EncodeBatch
    \/ VstackError
    \/ SaveOutputs

EmbedSpec == EmbedInit /\ [][EmbedNext]_vars

\* ================================================================ claims
\* ---------------------------------------------------------------- C1
\* C1: every label assignment cluster() holds for a level n has one entry per
\* row of the matrix, every entry is an integer of 1..n, and when n does not
\* exceed the number of distinct vectors every integer of 1..n labels some
\* row; level N then gives each row its own cluster and level 1 gives all
\* rows the label 1.
C1_LabelAssignment ==
    script = "cluster_embeddings" =>
        \A n \in DOMAIN results :
            LET lab == results[n]
                N == Len(fileRows)
            IN  /\ DOMAIN lab = 1..N
                /\ \A j \in 1..N : lab[j] \in 1..n
                /\ n <= Distinct(fileRows) => {lab[j] : j \in 1..N} = 1..n
                /\ (n = N /\ Distinct(fileRows) = N) =>
                       \A j, k \in 1..N : j # k => lab[j] # lab[k]
                /\ n = 1 => \A j \in 1..N : lab[j] = 1

\* levels 1 and N (= 3, all rows distinct) have both been clustered
C1_Witness ==
    /\ script = "cluster_embeddings"
    /\ Len(fileRows) = 3 /\ Distinct(fileRows) = 3
    /\ DOMAIN results = {1, 3}

\* ---------------------------------------------------------------- C2
\* C2: in the written clustering output every column of the input metadata
\* table is present with the same name, at the same position and with the
\* same values.
C2_OriginalColumnsKept ==
    (script = "cluster_embeddings" /\ outFile.exists) =>
        \A k \in 1..Len(metadataFile.columns) :
            /\ k <= Len(outFile.columns)
            /\ outFile.columns[k] = metadataFile.columns[k]
            /\ outFile.data[k] = metadataFile.data[k]

\* ---------------------------------------------------------------- C3
\* a precondition failure as the claim lists them: a missing input file, a
\* vector/metadata row-count mismatch, a named column the table does not have
ListedFailure ==
    IF script = "cluster_embeddings"
    THEN \/ ~PathsExist
         \/ FrameLen(metadataFile) # Len(fileRows)
    ELSE \/ ~metadataExists
         \/ columnsArg # NoColumns /\ Missing(columnsArg, metadataFile) # <<>>

\* a degenerate clustering request (at most one row, or a level above the row count)
Degenerate ==
    /\ script = "cluster_embeddings"
    /\ \/ Len(fileRows) <= 1
       \/ \E k \in 1..Len(levels) : levels[k] > Len(fileRows)

\* C3: a run with a precondition failure ends with exit code 1, no clustering
\* performed and no output written; a run without one (and, read with the
\* rejection of degenerate requests, without a degenerate request) ends with
\* exit code 0; the row-count check precedes every call of cluster().
C3_ExitCodes ==
    pc = "done" =>
        /\ ListedFailure => (exitCode = 1 /\ fits = 0 /\ ~outFile.exists)
        /\ (~ListedFailure /\ ~Degenerate) => exitCode = 0
        /\ report = "Row count mismatch" => fits = 0

\* ---------------------------------------------------------------- C4
\* C4: a run on a matrix of at most one row, or with a requested level above
\* the row count, reports a failure, ends with a non-zero exit code, writes
\* no output file and adds no level column: cluster() returns nothing.
C4_DegenerateRejected ==
    (pc = "done" /\ Degenerate) =>
        /\ exitCode # 0 /\ exitCode # NoExit
        /\ report # ""
        /\ ~outFile.exists
        /\ df \in {EmptyFrame, LoadMetadata(metadataFile)}

\* two rows with matching metadata, levels 2 and 3: level 2 was clustered and
\* reported, the fit of level 3 raised
C4_Witness ==
    /\ pc = "done" /\ script = "cluster_embeddings"
    /\ Len(fileRows) = 2 /\ FrameLen(metadataFile) = 2
    /\ Range(levels) = {2, 3}
    /\ runs = <<2>> /\ report = "Traceback: ValueError"

\* ---------------------------------------------------------------- C5
\* the distinct requested levels in ascending order
DistinctLevels == SortedKeys(Range(levels))

\* C5: the header of the written clustering output is the input header
\* followed by one column cluster_<NN> per distinct requested level, in
\* ascending level order and with pairwise distinct names, and the column of
\* level n holds the labels of level n as strings.
C5_OutputHeader ==
    (script = "cluster_embeddings" /\ outFile.exists) =>
        LET old == Len(metadataFile.columns) IN
        /\ outFile.columns =
               metadataFile.columns
                   \o [k \in 1..Len(DistinctLevels) |-> ClusterColumn(DistinctLevels[k])]
        /\ \A j, k \in 1..Len(outFile.columns) :
               j # k => outFile.columns[j] # outFile.columns[k]
        /\ \A k \in 1..Len(DistinctLevels) :
               /\ old + k <= Len(outFile.data)
               /\ outFile.data[old + k] = AsStr(results[DistinctLevels[k]])

\* ---------------------------------------------------------------- C6
\* C6: cluster() performs and reports one clustering run per distinct
\* requested level, in strictly increasing level order.
C6_OneRunPerLevel ==
    script = "cluster_embeddings" =>
        /\ \A j, k \in 1..Len(runs) : j < k => runs[j] < runs[k]
        /\ (pc = "done" /\ exitCode = 0) =>
               /\ Range(runs) = Range(levels)
               /\ Len(runs) = Cardinality(Range(levels))
               /\ fits = Cardinality(Range(levels))

\* ---------------------------------------------------------------- C9
\* C9: the labels held for a level n are those of a single model fitted to
\* the matrix for n clusters from the fixed seed: they depend on the matrix
\* and n only, not on the other requested levels, their order or their number.
C9_LabelsDependOnMatrixAndLevel ==
    script = "cluster_embeddings" =>
        \A n \in DOMAIN results :
            results[n] = OneBased(FitPredict(fileRows, n, random_state).labels)

\* level 2 of a matrix of three distinct rows, clustered after another level
C9_Witness ==
    /\ script = "cluster_embeddings"
    /\ Distinct(fileRows) = 3
    /\ Len(runs) = 2 /\ runs[2] = 2

\* ---------------------------------------------------------------- C10
\* every cluster of the coarser level is a union of clusters of the finer level
Nested(coarse, fine) ==
    \A j, k \in DOMAIN fine : fine[j] = fine[k] => coarse[j] = coarse[k]

\* C10: one tree is built per run and cut at every requested level, so for
\* requested levels n1 < n2 the partition of n1 is a coarsening of that of n2.
C10_OneTreeCutAtEveryLevel ==
    script = "cluster_embeddings" =>
        \A n1, n2 \in DOMAIN results :
            n1 < n2 => (fits <= 1 /\ Nested(results[n1], results[n2]))

\* ---------------------------------------------------------------- C7
ExampleResult == <<"A", "A", "A", "B", "B", "Other", "Other", "Other">>

Min(a, b) == IF a < b THEN a ELSE b

\* out keeps the rows of s whose value is among the n most frequent values
\* of s and holds 'Other' in every other row
KeepsTopValues(s, n, out) ==
    /\ Len(out) = Len(s)
    /\ \E K \in SUBSET Range(s) :
           /\ Cardinality(K) = Min(n, Cardinality(Range(s)))
           /\ \A v \in K : \A u \in Range(s) \ K : Count(s, v) >= Count(s, u)
           /\ \A j \in 1..Len(s) : out[j] = IF s[j] \in K THEN s[j] ELSE "Other"
    /\ Cardinality(Range(out) \ {"Other"}) <= n

\* C7: the column compress_column returned for the column just processed has
\* the length of that column, keeps each row whose value is one of the top_n
\* most frequent values and holds 'Other' elsewhere, so it has at most top_n
\* values besides 'Other'; [A,A,A,B,B,C,D,E] with top_n = 2 gives
\* [A,A,A,B,B,Other,Other,Other].
C7_CompressColumn ==
    (script = "compress_metadata" /\ pc \in {"compress", "done"} /\ i > 1) =>
        LET s == GetColumn(df, columns[i - 1])
            out == GetColumn(df, TopColumn(columns[i - 1], top_n))
        IN  /\ KeepsTopValues(s, top_n, out)
            /\ (s = ExampleColumn /\ top_n = 2) => out = ExampleResult

\* the documented example has been compressed with top_n = 2
C7_Witness ==
    /\ script = "compress_metadata" /\ pc = "done" /\ outFile.exists
    /\ metadataFile = ExampleTable /\ top_n = 2
    /\ GetColumn(df, "publisher_top2") = ExampleResult

\* ---------------------------------------------------------------- C8
\* C8: the written output of compress_metadata holds every column of the
\* input table with its name, position and values, followed by one column
\* {col}_top{N} per selected column, whose content is compress_column applied
\* to the input values of col.
C8_FacetsAppended ==
    (script = "compress_metadata" /\ outFile.exists) =>
        LET old == Len(metadataFile.columns)
            added == {TopColumn(c, top_n) : c \in Range(columns)}
        IN  /\ Len(outFile.columns) = old + Cardinality(added)
            /\ \A k \in 1..old :
                   /\ k <= Len(outFile.columns)
                   /\ outFile.columns[k] = metadataFile.columns[k]
                   /\ outFile.data[k] = metadataFile.data[k]
            /\ \A c \in Range(columns) :
                   \E k \in (old + 1)..Len(outFile.columns) :
                       /\ outFile.columns[k] = TopColumn(c, top_n)
                       /\ outFile.data[k] =
                              compress_column(GetColumn(metadataFile, c), top_n)

\* ---------------------------------------------------------------- C11
\* no run of umap_reduce changes a file that was at output_path when it started
NeverOverwrites ==
    (script = "umap_reduce" /\ outputBefore.exists) => outFile = outputBefore

\* exit code 1 for dims >= input dims only with no file at output_path, and
\* none is written then
DimsErrorWritesNothing ==
    (script = "umap_reduce" /\ report = "--dims must be less than input dims") =>
        /\ exitCode = 1
        /\ ~outputBefore.exists /\ ~outFile.exists
        /\ dims >= fileDims

\* C11 as stated: whenever output_path already exists the run ends with exit
\* code 0 without loading, reducing or writing and leaves the file unchanged;
\* the dims error is reached only without an output file and writes none.
C11_SkipsWheneverOutputExists ==
    /\ NeverOverwrites
    /\ (script = "umap_reduce" /\ pc = "done" /\ outputBefore.exists) =>
           (exitCode = 0 /\ calls = <<>>)
    /\ DimsErrorWritesNothing

\* C11 amended: an existing output file is never changed and never preceded
\* by a load, a reduction or a write; the run then ends with exit code 0 when
\* the vectors file exists and with exit code 1 when it does not (the check of
\* the vectors file comes first); the dims error is reached only without an
\* output file and writes none.
C11_SkipsExistingOutput ==
    /\ NeverOverwrites
    /\ (script = "umap_reduce" /\ pc = "done" /\ outputBefore.exists) =>
           /\ calls = <<>>
           /\ exitCode = IF vectorsExists THEN 0 ELSE 1
    /\ DimsErrorWritesNothing

\* a run that found the output file and skipped, with arguments that would
\* otherwise have failed the dims check
C11_Witness ==
    /\ script = "umap_reduce" /\ pc = "done"
    /\ outputBefore.exists /\ vectorsExists
    /\ Len(fileRows) >= 2 /\ dims >= fileDims
    /\ exitCode = 0 /\ report = "Already exists, skipping"

\* ---------------------------------------------------------------- C12
\* C12: the batches encoded so far are consecutive slices of the texts, each
\* of 1..batch_size texts, covering a prefix of the list in order and without
\* overlap; the printed done counts never decrease and count the texts
\* encoded; for N >= 1 texts and batch_size >= 1 the run returns a matrix of N
\* rows, row k the embedding of text k, after a last done count of N, and the
\* vectors file and the metadata file then written both have as many data
\* rows as the input table.
C12_BatchesCoverTexts ==
    script = "embed_csv" =>
        LET flat == Vstack(embeddings)
            N == Len(texts)
        IN  /\ Len(progress) = Len(embeddings)
            /\ \A j, k \in 1..Len(progress) : j < k => progress[j] <= progress[k]
            /\ \A k \in 1..Len(embeddings) :
                   Len(embeddings[k]) \in 1..batch_size
            /\ Len(flat) <= N
            /\ \A k \in 1..Len(flat) : flat[k] = Encode(texts[k])
            /\ progress # <<>> => progress[Len(progress)] = Len(flat)
            /\ (pc = "done" /\ inputExists /\ report # "Column(s) not found"
                   /\ FrameLen(csvFile) >= 1 /\ batch_size >= 1) =>
                   /\ exitCode = 0
                   /\ N = FrameLen(csvFile)
                   /\ progress[Len(progress)] = N
                   /\ vectorsOut.exists /\ outFile.exists
            /\ (vectorsOut.exists \/ outFile.exists) =>
                   /\ vectorsOut.data = [k \in 1..N |-> Encode(texts[k])]
                   /\ Len(vectorsOut.data) = FrameLen(csvFile)
                   /\ FrameLen(outFile) = FrameLen(csvFile)

\* three texts encoded in batches of two, both files written
C12_Witness ==
    /\ script = "embed_csv" /\ pc = "done" /\ exitCode = 0
    /\ Len(texts) = 3 /\ batch_size = 2
    /\ progress = <<2, 3>>
    /\ vectorsOut.exists /\ outFile.exists

====
